---- MODULE Spec2Model ----
(***************************************************************************)
(* A model of scripts/generate_blog.py: the static blog generator.         *)
(*                                                                         *)
(* Text is modelled at character level: a Python str is a sequence of      *)
(* one-character strings, so that split, strip, splitlines, slugify and    *)
(* path formatting are computed the way the code computes them.            *)
(***************************************************************************)
EXTENDS Integers, Sequences, FiniteSets, TLC

VARIABLES
  \* ---- one run of main() ----
  files,      \* posts/*.html on disk: file stem (str) -> file text (str)
  pc,         \* position of main(): the step about to run, "done" or "failed"
  posts,      \* the list load_posts() returned
  fs,         \* output files written by this run: path (str) -> page
  log,        \* every write of this run, in order: [step, path, page]
  err,        \* the exception that left main(), or "none"
  \* ---- one call of parse_post() ----
  p_shape,    \* how the text under parse was put together
  p_path,     \* the path handed to parse_post
  p_text,     \* the text open(path).read() returned
  p_pc,       \* "call" before the call, "returned" after it
  p_result    \* what the call produced: a post, or the exception raised

vars == <<files, pc, posts, fs, log, err, p_shape, p_path, p_text, p_pc, p_result>>
mainVars == <<files, pc, posts, fs, log, err>>
parseVars == <<p_shape, p_path, p_text, p_pc, p_result>>

(***************************************************************************)
(* Python str primitives                                                   *)
(***************************************************************************)

\* str.isspace() characters that occur in post files
Whitespace == {" ", "\n", "\t", "\r"}

RECURSIVE LStrip(_)
LStrip(s) ==
  IF s = <<>> THEN <<>>
  ELSE IF Head(s) \in Whitespace THEN LStrip(Tail(s)) ELSE s

RECURSIVE RStrip(_)
RStrip(s) ==
  IF s = <<>> THEN <<>>
  ELSE IF s[Len(s)] \in Whitespace THEN RStrip(SubSeq(s, 1, Len(s) - 1)) ELSE s

\* str.strip()
Strip(s) == RStrip(LStrip(s))

\* s.startswith(sep)
StartsWith(s, sep) ==
  /\ Len(s) >= Len(sep)
  /\ SubSeq(s, 1, Len(sep)) = sep

\* s.find(sep): 1-based index of the first occurrence, 0 when there is none
RECURSIVE FindFrom(_, _, _)
FindFrom(s, sep, i) ==
  IF i + Len(sep) - 1 > Len(s) THEN 0
  ELSE IF SubSeq(s, i, i + Len(sep) - 1) = sep THEN i
  ELSE FindFrom(s, sep, i + 1)

Find(s, sep) == FindFrom(s, sep, 1)

\* s.split(sep): every non-overlapping occurrence, left to right
RECURSIVE Split(_, _)
Split(s, sep) ==
  LET i == Find(s, sep) IN
  IF i = 0 THEN <<s>>
  ELSE <<SubSeq(s, 1, i - 1)>> \o Split(SubSeq(s, i + Len(sep), Len(s)), sep)

\* s.split(sep, 1): at most one split, at the first occurrence
Split1(s, sep) ==
  LET i == Find(s, sep) IN
  IF i = 0 THEN <<s>>
  ELSE <<SubSeq(s, 1, i - 1), SubSeq(s, i + Len(sep), Len(s))>>

\* sep.join(list)
RECURSIVE Join(_, _)
Join(sep, list) ==
  IF list = <<>> THEN <<>>
  ELSE IF Len(list) = 1 THEN list[1]
  ELSE list[1] \o sep \o Join(sep, Tail(list))

\* s.splitlines(): breaks at "\n"; no empty last line
RECURSIVE SplitLines(_)
SplitLines(s) ==
  IF s = <<>> THEN <<>>
  ELSE LET i == Find(s, <<"\n">>) IN
       IF i = 0 THEN <<s>>
       ELSE <<SubSeq(s, 1, i - 1)>> \o SplitLines(SubSeq(s, i + 1, Len(s)))

\* s.replace(a, b) for one-character a
RECURSIVE Replace1(_, _, _)
Replace1(s, a, b) ==
  IF s = <<>> THEN <<>>
  ELSE (IF Head(s) = a THEN b ELSE <<Head(s)>>) \o Replace1(Tail(s), a, b)

Digits == <<"0", "1", "2", "3", "4", "5", "6", "7", "8", "9">>

IsDigit(c) == \E i \in 1..10 : Digits[i] = c

DigitVal(c) == (CHOOSE i \in 1..10 : Digits[i] = c) - 1

\* int(s) for a run of digits
RECURSIVE ToInt(_)
ToInt(s) ==
  IF s = <<>> THEN 0
  ELSE 10 * ToInt(SubSeq(s, 1, Len(s) - 1)) + DigitVal(s[Len(s)])

AllDigits(s) == \A i \in 1..Len(s) : IsDigit(s[i])

\* str(n) for n >= 0
RECURSIVE IntToStr(_)
IntToStr(n) ==
  IF n < 10 THEN <<Digits[n + 1]>>
  ELSE IntToStr(n \div 10) \o <<Digits[(n % 10) + 1]>>

\* f"{n:02d}"
Pad2(n) == IF n < 10 THEN <<"0">> \o IntToStr(n) ELSE IntToStr(n)

(***************************************************************************)
(* datetime                                                                *)
(***************************************************************************)

IsLeap(y) == (y % 4 = 0 /\ y % 100 # 0) \/ y % 400 = 0

DaysInMonth(y, m) ==
  IF m = 2 THEN (IF IsLeap(y) THEN 29 ELSE 28)
  ELSE IF m \in {4, 6, 9, 11} THEN 30 ELSE 31

\* days since 1970-01-01 of a proleptic Gregorian date
DaysFromCivil(y, m, d) ==
  LET yy  == IF m <= 2 THEN y - 1 ELSE y
      era == yy \div 400
      yoe == yy - era * 400
      mp  == IF m > 2 THEN m - 3 ELSE m + 9
      doy == (153 * mp + 2) \div 5 + d - 1
      doe == yoe * 365 + yoe \div 4 - yoe \div 100 + doy
  IN era * 146097 + doe - 719468

\* a datetime: aware is "tzinfo is not None", off its UTC offset in minutes
DateTime(y, m, d, hh, mi, ss, aware, off) ==
  [year |-> y, month |-> m, day |-> d, hour |-> hh, minute |-> mi,
   second |-> ss, aware |-> aware, off |-> off]

\* HH, HH:MM or HH:MM:SS
ParseTime(t) ==
  LET n   == Len(t)
      two(i) == AllDigits(SubSeq(t, i, i + 1))
      val(i) == ToInt(SubSeq(t, i, i + 1))
      shape == \/ n = 2 /\ two(1)
               \/ n = 5 /\ two(1) /\ t[3] = ":" /\ two(4)
               \/ n = 8 /\ two(1) /\ t[3] = ":" /\ two(4) /\ t[6] = ":" /\ two(7)
  IN IF ~shape THEN [ok |-> FALSE]
     ELSE LET hh == val(1)
              mi == IF n >= 5 THEN val(4) ELSE 0
              ss == IF n >= 8 THEN val(7) ELSE 0
          IN IF hh < 24 /\ mi < 60 /\ ss < 60
             THEN [ok |-> TRUE, hour |-> hh, minute |-> mi, second |-> ss]
             ELSE [ok |-> FALSE]

\* +HH:MM or -HH:MM
ParseTz(z) ==
  IF /\ Len(z) = 6
     /\ z[1] \in {"+", "-"}
     /\ AllDigits(SubSeq(z, 2, 3))
     /\ z[4] = ":"
     /\ AllDigits(SubSeq(z, 5, 6))
     /\ ToInt(SubSeq(z, 2, 3)) < 24
     /\ ToInt(SubSeq(z, 5, 6)) < 60
  THEN [ok |-> TRUE,
        off |-> (IF z[1] = "-" THEN -1 ELSE 1)
                  * (ToInt(SubSeq(z, 2, 3)) * 60 + ToInt(SubSeq(z, 5, 6)))]
  ELSE [ok |-> FALSE]

\* datetime.fromisoformat(s): YYYY-MM-DD[*HH[:MM[:SS]][+HH:MM]];
\* [ok |-> FALSE] stands for the ValueError it raises
fromisoformat(s) ==
  LET dateOk ==
        /\ Len(s) >= 10
        /\ AllDigits(SubSeq(s, 1, 4)) /\ s[5] = "-"
        /\ AllDigits(SubSeq(s, 6, 7)) /\ s[8] = "-"
        /\ AllDigits(SubSeq(s, 9, 10))
        /\ ToInt(SubSeq(s, 1, 4)) >= 1
        /\ ToInt(SubSeq(s, 6, 7)) \in 1..12
        /\ ToInt(SubSeq(s, 9, 10)) >= 1
        /\ ToInt(SubSeq(s, 9, 10))
             <= DaysInMonth(ToInt(SubSeq(s, 1, 4)), ToInt(SubSeq(s, 6, 7)))
  IN IF ~dateOk THEN [ok |-> FALSE]
     ELSE LET y == ToInt(SubSeq(s, 1, 4))
              m == ToInt(SubSeq(s, 6, 7))
              d == ToInt(SubSeq(s, 9, 10))
          IN IF Len(s) = 10
             THEN [ok |-> TRUE, value |-> DateTime(y, m, d, 0, 0, 0, FALSE, 0)]
             ELSE IF Len(s) = 11 THEN [ok |-> FALSE]
             ELSE LET rest == SubSeq(s, 12, Len(s))
                      plus == Find(rest, <<"+">>)
                      minus == Find(rest, <<"-">>)
                      cut == IF plus # 0 THEN plus ELSE minus
                      tstr == IF cut = 0 THEN rest ELSE SubSeq(rest, 1, cut - 1)
                      zstr == IF cut = 0 THEN <<>> ELSE SubSeq(rest, cut, Len(rest))
                      t == ParseTime(tstr)
                      z == IF cut = 0 THEN [ok |-> TRUE, off |-> 0] ELSE ParseTz(zstr)
                  IN IF t.ok /\ z.ok
                     THEN [ok |-> TRUE,
                           value |-> DateTime(y, m, d, t.hour, t.minute, t.second,
                                              cut # 0, z.off)]
                     ELSE [ok |-> FALSE]

\* seconds since the epoch of the instant (aware) or of the wall clock (naive)
Timestamp(dt) ==
  ((DaysFromCivil(dt.year, dt.month, dt.day) * 24 + dt.hour) * 60
     + dt.minute - dt.off) * 60 + dt.second

\* a < b on datetimes raises TypeError between a naive and an aware value
Comparable(a, b) == a.aware = b.aware

DateLess(a, b) == Timestamp(a) < Timestamp(b)

MonthAbbr == <<"Jan", "Feb", "Mar", "Apr", "May", "Jun",
               "Jul", "Aug", "Sep", "Oct", "Nov", "Dec">>

MonthName == <<"January", "February", "March", "April", "May", "June", "July",
               "August", "September", "October", "November", "December">>

DayAbbr == <<"Mon", "Tue", "Wed", "Thu", "Fri", "Sat", "Sun">>

\* date.strftime("%b %d, %Y")
DateDisplay(dt) == <<MonthAbbr[dt.month], Pad2(dt.day), dt.year>>

\* date.strftime("%a, %d %b %Y %H:%M:%S +0000")
RssDate(dt) ==
  <<DayAbbr[((DaysFromCivil(dt.year, dt.month, dt.day) + 3) % 7) + 1],
    Pad2(dt.day), MonthAbbr[dt.month], dt.year,
    Pad2(dt.hour), Pad2(dt.minute), Pad2(dt.second), "+0000">>

(***************************************************************************)
(* parse_post                                                              *)
(***************************************************************************)

kTitle == <<"t", "i", "t", "l", "e">>
kDate  == <<"d", "a", "t", "e">>
kSlug  == <<"s", "l", "u", "g">>
kTags  == <<"t", "a", "g", "s">>
Delim  == <<"-", "-", "-">>
POSTS_DIR == <<"p", "o", "s", "t", "s">>
DotHtml == <<".", "h", "t", "m", "l">>

\* index of the last occurrence of the one-character c in s, 0 when none
RECURSIVE RFind(_, _)
RFind(s, c) ==
  IF s = <<>> THEN 0
  ELSE IF s[Len(s)] = c THEN Len(s) ELSE RFind(SubSeq(s, 1, Len(s) - 1), c)

\* os.path.basename(path)
Basename(path) == SubSeq(path, RFind(path, "/") + 1, Len(path))

\* os.path.splitext(name)[0]: a leading dot starts no extension
SplitExtRoot(name) ==
  LET i == RFind(name, ".") IN
  IF i <= 1 THEN name ELSE SubSeq(name, 1, i - 1)

\* dict.get(key): [some |-> FALSE] is None
Get(meta, key) ==
  IF key \in DOMAIN meta THEN [some |-> TRUE, val |-> meta[key]]
  ELSE [some |-> FALSE]

\* bool(x) of an optional str: None and "" are falsy
Truthy(x) == x.some /\ x.val # <<>>

\* meta[key] = value
Put(meta, key, value) ==
  [k \in (DOMAIN meta) \cup {key} |-> IF k = key THEN value ELSE meta[k]]

\* rsplit in place of split: the line is cut at its last ":"
SplitKeyValue_AtLastColon(line) ==
  LET i == RFind(line, ":") IN
  IF i = 0 THEN <<line>>
  ELSE <<SubSeq(line, 1, i - 1), SubSeq(line, i + 1, Len(line))>>

\* line 38: key, value = line.split(":", 1)
SplitKeyValue(line) == Split1(line, <<":">>)

\* lines 34-39: the loop over the metadata lines; a line without ":" makes
\* the unpacking raise ValueError
RECURSIVE ParseMeta(_, _)
ParseMeta(lines, meta) ==
  IF lines = <<>> THEN [ok |-> TRUE, meta |-> meta]
  ELSE IF Strip(Head(lines)) = <<>> THEN ParseMeta(Tail(lines), meta)
  ELSE LET kv == SplitKeyValue(Head(lines)) IN
       IF Len(kv) # 2 THEN [ok |-> FALSE]
       ELSE ParseMeta(Tail(lines), Put(meta, Strip(kv[1]), Strip(kv[2])))

RECURSIVE StripAll(_)
StripAll(list) ==
  IF list = <<>> THEN <<>>
  ELSE (IF Strip(Head(list)) = <<>> THEN <<>> ELSE <<Strip(Head(list))>>)
         \o StripAll(Tail(list))

\* line 56: [t.strip() for t in tags_raw.split(",") if t.strip()]
ParseTags(tags_raw) == StripAll(Split(tags_raw, <<",">>))

\* line 46: if not title or not date_str: raise
RequiredMissing(title, date_str) == ~Truthy(title) \/ ~Truthy(date_str)

\* parse_post(path) on a file holding text: [ok |-> TRUE, post |-> ...] when it
\* returns, [ok |-> FALSE, error |-> ...] when it raises
parse_post(path, text) ==
  LET parts == Split(text, Delim) IN
  IF Len(parts) < 3
  THEN [ok |-> FALSE, error |-> "ValueError: missing front matter delimiters"]
  ELSE
    LET meta_block == Strip(parts[2])
        body_html  == Strip(Join(Delim, SubSeq(parts, 3, Len(parts))))
        parsed     == ParseMeta(SplitLines(meta_block), <<>>)
    IN
    IF ~parsed.ok
    THEN [ok |-> FALSE, error |-> "ValueError: not enough values to unpack"]
    ELSE
      LET meta     == parsed.meta
          title    == Get(meta, kTitle)
          date_str == Get(meta, kDate)
          slugOpt  == Get(meta, kSlug)
      IN
      IF RequiredMissing(title, date_str)
      THEN [ok |-> FALSE, error |-> "ValueError: missing title or date"]
      ELSE
        LET slug == IF Truthy(slugOpt) THEN slugOpt.val
                    ELSE SplitExtRoot(Basename(path))
            tags_raw == IF kTags \in DOMAIN meta THEN meta[kTags] ELSE <<>>
            tags == ParseTags(tags_raw)
            date == fromisoformat(date_str.val)
        IN
        IF ~date.ok
        THEN [ok |-> FALSE, error |-> "ValueError: Invalid isoformat string"]
        ELSE [ok |-> TRUE,
              post |-> [title |-> title.val, date |-> date.value,
                        date_str |-> date_str.val, slug |-> slug,
                        tags |-> tags, body_html |-> body_html]]

(***************************************************************************)
(* Post texts the checks draw from                                         *)
(***************************************************************************)

\* greatest number of metadata lines in a text under parse
MaxLines == 3

\* a metadata line: key and value as the author wrote them, whether the line
\* has its ":", whether it is padded with blanks, and (for the checks) the
\* timestamp the value stands for: iso.ok says the value is an ISO-8601
\* date or date and time, iso.full that it names a day (not only a month)
Line(k, v, colon, pad, iso) ==
  [k |-> k, v |-> v, colon |-> colon, pad |-> pad, iso |-> iso]

NoDate == [ok |-> FALSE, full |-> FALSE]
IsoDate(value) == [ok |-> TRUE, full |-> TRUE, value |-> value]
\* an ISO-8601 calendar month, YYYY-MM
IsoMonth == [ok |-> TRUE, full |-> FALSE]

D_0105  == <<"2", "0", "2", "4", "-", "0", "1", "-", "0", "5">>
D_0120  == <<"2", "0", "2", "4", "-", "0", "1", "-", "2", "0">>
D_0201  == <<"2", "0", "2", "4", "-", "0", "2", "-", "0", "1">>
D_1231  == <<"2", "0", "2", "3", "-", "1", "2", "-", "3", "1">>
D_Bad   == <<"2", "0", "2", "4", "-", "1", "3", "-", "0", "1">>
D_Month == <<"2", "0", "2", "4", "-", "0", "1">>
T_1030  == <<"T", "1", "0", ":", "3", "0">>
Z_0200  == <<"+", "0", "2", ":", "0", "0">>

LineKinds ==
  { Line(kTitle, <<"H", "i">>, TRUE, FALSE, NoDate),
    Line(kTitle, <<"a", ":", "b">>, TRUE, TRUE, NoDate),
    Line(kTitle, <<>>, TRUE, TRUE, NoDate),
    Line(kDate, D_0105, TRUE, FALSE,
         IsoDate(DateTime(2024, 1, 5, 0, 0, 0, FALSE, 0))),
    Line(kDate, D_0120 \o T_1030, TRUE, TRUE,
         IsoDate(DateTime(2024, 1, 20, 10, 30, 0, FALSE, 0))),
    Line(kDate, D_0201 \o T_1030 \o Z_0200, TRUE, FALSE,
         IsoDate(DateTime(2024, 2, 1, 10, 30, 0, TRUE, 120))),
    Line(kDate, D_Bad, TRUE, FALSE, NoDate),
    Line(kDate, D_Month, TRUE, FALSE, IsoMonth),
    Line(kSlug, <<"s", "1">>, TRUE, FALSE, NoDate),
    Line(kTags, <<"a", ",", " ", "b", " ", ",", "c">>, TRUE, FALSE, NoDate),
    Line(<<" ">>, <<>>, FALSE, FALSE, NoDate),
    Line(<<"o", "o", "p", "s">>, <<>>, FALSE, FALSE, NoDate) }

\* the line as it stands in the file
LineText(l) ==
  IF ~l.colon THEN l.k
  ELSE IF l.pad THEN <<" ">> \o l.k \o <<" ", ":", " ", " ">> \o l.v \o <<" ">>
  ELSE l.k \o <<":", " ">> \o l.v

RECURSIVE LineTexts(_)
LineTexts(ls) ==
  IF ls = <<>> THEN <<>> ELSE <<LineText(Head(ls))>> \o LineTexts(Tail(ls))

Body == <<"<", "p", ">", "x", "\n", "y", "<", "/", "p", ">">>

\* the file text of a shape: delims is the number of "---" in it
ShapeText(sh) ==
  LET block == Join(<<"\n">>, LineTexts(sh.lines)) IN
  CASE sh.delims = 0 -> block \o <<"\n">> \o Body
    [] sh.delims = 1 -> Delim \o <<"\n">> \o block \o <<"\n">> \o Body
    [] sh.delims = 2 -> Delim \o <<"\n">> \o block \o <<"\n">> \o Delim
                          \o <<"\n">> \o Body \o <<"\n">>
    [] OTHER         -> Delim \o <<"\n">> \o block \o <<"\n">> \o Delim
                          \o <<"\n">> \o Body \o Delim \o Body

LineSeqs == UNION {[1..n -> LineKinds] : n \in 0..MaxLines}

PostPath(stem) == POSTS_DIR \o <<"/">> \o stem \o DotHtml

(***************************************************************************)
(* One call of parse_post                                                  *)
(***************************************************************************)

MainIdle ==
  /\ files = <<>>
  /\ pc = "idle"
  /\ posts = <<>>
  /\ fs = <<>>
  /\ log = <<>>
  /\ err = "none"

InitParse ==
  /\ MainIdle
  /\ \E d \in 0..3, ls \in LineSeqs :
        p_shape = [delims |-> d, lines |-> ls]
  /\ p_path = PostPath(<<"m", "y", "-", "p", "o", "s", "t">>)
  /\ p_text = ShapeText(p_shape)
  /\ p_pc = "call"
  /\ p_result = [ok |-> FALSE, error |-> "none"]

ParsePost ==
  /\ p_pc = "call"
  /\ p_result' = parse_post(p_path, p_text)
  /\ p_pc' = "returned"
  /\ UNCHANGED <<p_shape, p_path, p_text>>
  /\ UNCHANGED mainVars

NextParse == ParsePost

SpecParse == InitParse /\ [][NextParse]_vars

(***************************************************************************)
(* load_posts                                                              *)
(***************************************************************************)

\* the characters of file names, in code-point order
CodeOrder ==
  <<"-", ".", "/", "0", "1", "2", "3", "4", "5", "6", "7", "8", "9",
    "a", "b", "c", "d", "e", "f", "g", "h", "i", "j", "k", "l", "m",
    "n", "o", "p", "q", "r", "s", "t", "u", "v", "w", "x", "y", "z">>

Ord(c) == CHOOSE i \in 1..Len(CodeOrder) : CodeOrder[i] = c

\* a < b on str
RECURSIVE StrLess(_, _)
StrLess(a, b) ==
  IF b = <<>> THEN FALSE
  ELSE IF a = <<>> THEN TRUE
  ELSE IF Head(a) = Head(b) THEN StrLess(Tail(a), Tail(b))
  ELSE Ord(Head(a)) < Ord(Head(b))

\* sorted(paths) of a set of distinct paths
RECURSIVE SortedPaths(_)
SortedPaths(S) ==
  IF S = {} THEN <<>>
  ELSE LET least == CHOOSE x \in S : \A y \in S \ {x} : StrLess(x, y)
       IN <<least>> \o SortedPaths(S \ {least})

\* glob.glob("posts/*.html")
GlobPosts(dir) == {PostPath(stem) : stem \in DOMAIN dir}

\* the stem of a path of the posts directory
StemOf(path) == SplitExtRoot(Basename(path))

\* line 72: [parse_post(p) for p in files], stopping at the first that raises
RECURSIVE ParseAll(_, _)
ParseAll(dir, paths) ==
  IF paths = <<>> THEN [ok |-> TRUE, posts |-> <<>>]
  ELSE LET one == parse_post(Head(paths), dir[StemOf(Head(paths))]) IN
       IF ~one.ok THEN [ok |-> FALSE, error |-> one.error]
       ELSE LET rest == ParseAll(dir, Tail(paths)) IN
            IF ~rest.ok THEN rest
            ELSE [ok |-> TRUE, posts |-> <<one.post>> \o rest.posts]

Reverse(list) == [i \in 1..Len(list) |-> list[Len(list) + 1 - i]]

\* x put into an ascending list behind every element that is not greater
RECURSIVE InsertAsc(_, _)
InsertAsc(sorted, x) ==
  IF sorted = <<>> THEN <<x>>
  ELSE IF DateLess(x.date, Head(sorted).date) THEN <<x>> \o sorted
  ELSE <<Head(sorted)>> \o InsertAsc(Tail(sorted), x)

\* a stable ascending sort by date
RECURSIVE SortAsc(_)
SortAsc(list) ==
  IF list = <<>> THEN <<>>
  ELSE InsertAsc(SortAsc(SubSeq(list, 1, Len(list) - 1)), list[Len(list)])

\* line 74: posts.sort(key=date, reverse=True): the list is reversed, sorted
\* ascending (stable) and reversed again, so equal dates keep their order
SortNewestFirst(list) == Reverse(SortAsc(Reverse(list)))

\* whether the sort compares a naive with an aware date, and raises TypeError
SortRaises(list) ==
  \E i, j \in 1..Len(list) : ~Comparable(list[i].date, list[j].date)

\* load_posts() over the posts directory dir
load_posts(dir) ==
  LET parsed == ParseAll(dir, SortedPaths(GlobPosts(dir))) IN
  IF ~parsed.ok THEN parsed
  ELSE IF SortRaises(parsed.posts)
  THEN [ok |-> FALSE,
        error |-> "TypeError: can't compare offset-naive and offset-aware datetimes"]
  ELSE [ok |-> TRUE, posts |-> SortNewestFirst(parsed.posts)]

(***************************************************************************)
(* Fragment renderers                                                      *)
(***************************************************************************)

AUTHOR_NAME == "Chris"
SITE_BASE_URL == <<"h", "t", "t", "p", "s", ":", "/", "/", "c", "l", "o", "u", "d",
                   "t", "o", "p", "h", "e", "r", ".", "c", "o", "m">>
BLOG_OUTPUT == <<"b", "l", "o", "g", ".", "h", "t", "m", "l">>
RSS_OUTPUT == <<"f", "e", "e", "d", ".", "x", "m", "l">>
POSTS_OUTPUT_DIR == <<"b", "l", "o", "g">>
ARCHIVE_OUTPUT_DIR == <<"b", "l", "o", "g", "/", "a", "r", "c", "h", "i", "v", "e">>
TAG_OUTPUT_DIR == <<"b", "l", "o", "g", "/", "t", "a", "g">>

\* os.path.join(dir, name)
PathJoin(dir, name) == dir \o <<"/">> \o name

UpperCase == <<"A", "B", "C", "D", "E", "F", "G", "H", "I", "J", "K", "L", "M",
               "N", "O", "P", "Q", "R", "S", "T", "U", "V", "W", "X", "Y", "Z">>
LowerCase == <<"a", "b", "c", "d", "e", "f", "g", "h", "i", "j", "k", "l", "m",
               "n", "o", "p", "q", "r", "s", "t", "u", "v", "w", "x", "y", "z">>

LowerChar(c) ==
  IF \E i \in 1..26 : UpperCase[i] = c
  THEN LowerCase[CHOOSE i \in 1..26 : UpperCase[i] = c]
  ELSE c

\* str.lower()
Lower(s) == [i \in 1..Len(s) |-> LowerChar(s[i])]

\* re.sub(r"\s+", "-", s)
RECURSIVE SubSpaces(_)
SubSpaces(s) ==
  IF s = <<>> THEN <<>>
  ELSE IF Head(s) \in Whitespace THEN <<"-">> \o SubSpaces(LStrip(s))
  ELSE <<Head(s)>> \o SubSpaces(Tail(s))

SlugChar(c) ==
  \/ c = "-"
  \/ IsDigit(c)
  \/ \E i \in 1..26 : LowerCase[i] = c

\* re.sub(r"[^a-z0-9\-]", "", s)
RECURSIVE DropNonSlug(_)
DropNonSlug(s) ==
  IF s = <<>> THEN <<>>
  ELSE (IF SlugChar(Head(s)) THEN <<Head(s)>> ELSE <<>>) \o DropNonSlug(Tail(s))

slugify_tag(tag) == DropNonSlug(SubSpaces(Strip(Lower(tag))))

BlogHref(name) == <<"/", "b", "l", "o", "g", "/">> \o name \o DotHtml

TagHref(tag) ==
  <<"/", "b", "l", "o", "g", "/", "t", "a", "g", "/">> \o slugify_tag(tag) \o DotHtml

\* the <a> elements, which the code joins with ", "
render_tag_links(tags) ==
  [i \in 1..Len(tags) |-> [href |-> TagHref(tags[i]), text |-> tags[i]]]

\* re.sub(r"<[^>]+>", "", s)
RECURSIVE StripTags(_)
StripTags(s) ==
  IF s = <<>> THEN <<>>
  ELSE IF Head(s) = "<" /\ Find(Tail(s), <<">">>) >= 2
  THEN StripTags(SubSeq(Tail(s), Find(Tail(s), <<">">>) + 1, Len(s) - 1))
  ELSE <<Head(s)>> \o StripTags(Tail(s))

\* str.split(): the runs of non-blank characters
RECURSIVE Words(_)
Words(s) ==
  LET t == LStrip(s) IN
  IF t = <<>> THEN <<>>
  ELSE LET ends == {i \in 1..Len(t) : t[i] \in Whitespace}
           stop == IF ends = {} THEN Len(t) + 1
                   ELSE CHOOSE i \in ends : \A j \in ends : i <= j
       IN <<SubSeq(t, 1, stop - 1)>> \o Words(SubSeq(t, stop, Len(t)))

MAX_WORDS == 80

build_preview_html(body_html, max_words) ==
  LET words == Words(StripTags(body_html)) IN
  IF Len(words) <= max_words THEN body_html
  ELSE <<"<", "p", ">">> \o Join(<<" ">>, SubSeq(words, 1, max_words))
         \o <<".", ".", ".", "<", "/", "p", ">">>

render_post_card(post) ==
  [id        |-> post.slug,
   title     |-> post.title,
   date      |-> DateDisplay(post.date),
   preview   |-> build_preview_html(post.body_html, MAX_WORDS),
   author    |-> AUTHOR_NAME,
   tags_html |-> render_tag_links(post.tags),
   permalink |-> BlogHref(post.slug)]

Cards(list) == [i \in 1..Len(list) |-> render_post_card(list[i])]

RECENT_LIMIT == 5

NoSlug == [some |-> FALSE]
SomeSlug(s) == [some |-> TRUE, val |-> s]

\* line 127: " current" if current_slug and post["slug"] == current_slug
IsCurrent(post, current_slug) == Truthy(current_slug) /\ post.slug = current_slug.val

\* posts[:limit]
Take(list, limit) == SubSeq(list, 1, IF Len(list) < limit THEN Len(list) ELSE limit)

render_recent_posts(list, limit, current_slug) ==
  LET shown == Take(list, limit) IN
  [i \in 1..Len(shown) |->
     [href    |-> BlogHref(shown[i].slug),
      current |-> IsCurrent(shown[i], current_slug),
      icon    |-> Pad2(i),
      title   |-> shown[i].title,
      sub     |-> DateDisplay(shown[i].date)]]

\* (year, month) of a post's date
MonthKey(post) == <<post.date.year, post.date.month>>

\* groups[key].append(post) on a dict held as a list of [key, items] in
\* insertion order
Append1(groups, key, item) ==
  IF \E i \in 1..Len(groups) : groups[i].key = key
  THEN [i \in 1..Len(groups) |->
          IF groups[i].key = key
          THEN [key |-> key, items |-> Append(groups[i].items, item)]
          ELSE groups[i]]
  ELSE Append(groups, [key |-> key, items |-> <<item>>])

\* lines 142-145 and 252-255: group the posts by month
RECURSIVE GroupByMonth(_)
GroupByMonth(list) ==
  IF list = <<>> THEN <<>>
  ELSE Append1(GroupByMonth(SubSeq(list, 1, Len(list) - 1)),
               MonthKey(list[Len(list)]), list[Len(list)])

\* a < b on (year, month) tuples
KeyLess(a, b) == a[1] < b[1] \/ (a[1] = b[1] /\ a[2] < b[2])

\* sorted(keys) without reverse=True
RECURSIVE SortedKeysDesc_Ascending(_)
SortedKeysDesc_Ascending(S) ==
  IF S = {} THEN <<>>
  ELSE LET low == CHOOSE x \in S : \A y \in S \ {x} : KeyLess(x, y)
       IN <<low>> \o SortedKeysDesc_Ascending(S \ {low})

\* sorted(keys, reverse=True)
RECURSIVE SortedKeysDesc(_)
SortedKeysDesc(S) ==
  IF S = {} THEN <<>>
  ELSE LET top == CHOOSE x \in S : \A y \in S \ {x} : KeyLess(y, x)
       IN <<top>> \o SortedKeysDesc(S \ {top})

GroupOf(groups, key) == groups[CHOOSE i \in 1..Len(groups) : groups[i].key = key]

\* archive-{year}-{month:02d}.html
ArchiveName(year, month) ==
  <<"a", "r", "c", "h", "i", "v", "e", "-">> \o IntToStr(year) \o <<"-">>
    \o Pad2(month) \o DotHtml

\* str(year)[-2:]
Last2(s) == SubSeq(s, IF Len(s) < 2 THEN 1 ELSE Len(s) - 1, Len(s))

render_archives(list) ==
  LET groups == GroupByMonth(list)
      keys_sorted == SortedKeysDesc({groups[i].key : i \in 1..Len(groups)})
  IN [i \in 1..Len(keys_sorted) |->
        LET year == keys_sorted[i][1]
            month == keys_sorted[i][2]
        IN [href  |-> <<"/", "b", "l", "o", "g", "/", "a", "r", "c", "h", "i", "v",
                        "e", "/">> \o ArchiveName(year, month),
            icon  |-> Last2(IntToStr(year)),
            title |-> <<MonthName[month], year>>,
            sub   |-> Len(GroupOf(groups, keys_sorted[i]).items)]]

\* posts[index] in place of posts[index - 1]: the post itself
Newer_Itself(list, index) ==
  IF index > 0 THEN [some |-> TRUE, post |-> list[index + 1]] ELSE [some |-> FALSE]

\* posts[-1] in place of posts[index + 1]: always the oldest post
Older_Oldest(list, index) ==
  IF index < Len(list) - 1 THEN [some |-> TRUE, post |-> list[Len(list)]]
  ELSE [some |-> FALSE]

\* lines 341-346: the neighbours of posts[index] (index counts from 0)
Newer(list, index) ==
  IF index > 0 THEN [some |-> TRUE, post |-> list[index]] ELSE [some |-> FALSE]

Older(list, index) ==
  IF index < Len(list) - 1 THEN [some |-> TRUE, post |-> list[index + 2]]
  ELSE [some |-> FALSE]

PrevLink(post) == [rel |-> "Previous Post", href |-> BlogHref(post.slug),
                   title |-> post.title]
NextLink(post) == [rel |-> "Next Post", href |-> BlogHref(post.slug),
                   title |-> post.title]
NavSeparator == [rel |-> "|", href |-> <<>>, title |-> <<>>]

\* build_prev_next_nav(posts, index): the pieces of the returned HTML, in order
build_prev_next_nav(list, index) ==
  LET newer == Newer(list, index)
      older == Older(list, index)
      prev_html == IF older.some THEN <<PrevLink(older.post)>> ELSE <<>>
      next_html == IF newer.some THEN <<NextLink(newer.post)>> ELSE <<>>
  IN IF prev_html # <<>> /\ next_html # <<>>
     THEN prev_html \o <<NavSeparator>> \o next_html
     ELSE IF prev_html # <<>> THEN prev_html
     ELSE IF next_html # <<>> THEN next_html
     ELSE <<>>

(***************************************************************************)
(* Page builders: the files each one writes, in the order it writes them.  *)
(* A page is the template with each marker replaced by its fragment; the   *)
(* templates are taken to hold every marker their builder fills.           *)
(***************************************************************************)

Write(path, page) == [path |-> path, page |-> page]

BlogWrites(list) ==
  <<Write(BLOG_OUTPUT,
          [kind       |-> "index",
           posts_html |-> Cards(list),
           recent     |-> render_recent_posts(list, RECENT_LIMIT, NoSlug),
           archives   |-> render_archives(list)])>>

PostPagePath(slug) == PathJoin(POSTS_OUTPUT_DIR, slug \o DotHtml)

\* the shared sidebar of the other builders, with no current post
PostSidebar_Shared(list, post) == render_recent_posts(list, RECENT_LIMIT, NoSlug)

\* line 226: recent_html = render_recent_posts(posts, current_slug=post["slug"])
PostSidebar(list, post) == render_recent_posts(list, RECENT_LIMIT, SomeSlug(post.slug))

\* lines 218-243, one turn of the loop: idx counts from 0
PostPage(list, idx) ==
  LET post == list[idx + 1] IN
  [kind     |-> "post",
   title    |-> post.title,
   date     |-> DateDisplay(post.date),
   body     |-> post.body_html,
   author   |-> AUTHOR_NAME,
   tags     |-> render_tag_links(post.tags),
   nav      |-> build_prev_next_nav(list, idx),
   recent   |-> PostSidebar(list, post),
   archives |-> render_archives(list)]

PostPageWrites(list) ==
  [i \in 1..Len(list) |-> Write(PostPagePath(list[i].slug), PostPage(list, i - 1))]

ArchivePagePath(key) == PathJoin(ARCHIVE_OUTPUT_DIR, ArchiveName(key[1], key[2]))

\* lines 264-285, one turn of the loop
ArchivePage(list, group) ==
  [kind       |-> "archive",
   title      |-> <<"Archive:", MonthName[group.key[2]], group.key[1]>>,
   subtitle   |-> Len(group.items),
   posts_html |-> Cards(group.items),
   recent     |-> render_recent_posts(list, RECENT_LIMIT, NoSlug),
   archives   |-> render_archives(list)]

ArchiveWrites(list) ==
  LET groups == GroupByMonth(list) IN
  [i \in 1..Len(groups) |->
     Write(ArchivePagePath(groups[i].key), ArchivePage(list, groups[i]))]

\* lines 297-298: for tag in post["tags"]: tag_map[tag].append(post)
RECURSIVE AddTags(_, _, _)
AddTags(tag_map, tags, post) ==
  IF tags = <<>> THEN tag_map
  ELSE AddTags(Append1(tag_map, Head(tags), post), Tail(tags), post)

\* lines 295-298
RECURSIVE TagMap(_)
TagMap(list) ==
  IF list = <<>> THEN <<>>
  ELSE AddTags(TagMap(SubSeq(list, 1, Len(list) - 1)),
               list[Len(list)].tags, list[Len(list)])

\* the display string in place of the slug in the file name
TagPagePath_Unslugged(tag) == PathJoin(TAG_OUTPUT_DIR, tag \o DotHtml)

TagPagePath(tag) == PathJoin(TAG_OUTPUT_DIR, slugify_tag(tag) \o DotHtml)

\* lines 310-330, one turn of the loop
TagPage(list, entry) ==
  [kind       |-> "tag",
   title      |-> <<"Tag:", entry.key>>,
   subtitle   |-> Len(entry.items),
   posts_html |-> Cards(entry.items),
   recent     |-> render_recent_posts(list, RECENT_LIMIT, NoSlug),
   archives   |-> render_archives(list)]

TagWrites(list) ==
  LET tag_map == TagMap(list) IN
  [i \in 1..Len(tag_map) |-> Write(TagPagePath(tag_map[i].key), TagPage(list, tag_map[i]))]

RssLink(post) == SITE_BASE_URL \o BlogHref(post.slug)

\* lines 374-388
RssItem(post) ==
  [title       |-> post.title,
   link        |-> RssLink(post),
   guid        |-> RssLink(post),
   pubDate     |-> RssDate(post.date),
   description |-> Replace1(post.body_html, "\n", <<" ">>)]

\* posts[-1] in place of posts[0]: the date of the oldest post
LastBuild_OfOldest(list) == RssDate(list[Len(list)].date)

\* line 372: last_build = posts[0]["date"].strftime(...)
LastBuild(list) == RssDate(list[1].date)

RssFeed(list) ==
  [kind          |-> "rss",
   lastBuildDate |-> LastBuild(list),
   items         |-> [i \in 1..Len(list) |-> RssItem(list[i])]]

RssWrites(list) ==
  IF list = <<>> THEN <<>> ELSE <<Write(RSS_OUTPUT, RssFeed(list))>>

(***************************************************************************)
(* main: the steps in the order lines 408-413 call them                    *)
(***************************************************************************)

Steps == <<"load_posts", "build_blog_html", "build_post_pages",
           "build_archive_pages", "build_tag_pages", "build_rss", "done">>

StepIndex(step) == CHOOSE i \in 1..Len(Steps) : Steps[i] = step

\* the statement of main that follows step
After(step) == Steps[StepIndex(step) + 1]

\* a handler around each call of main that logs the error and goes on
Raise_Swallowed(e) ==
  /\ pc' = After(pc)
  /\ err' = "none"

\* an exception leaves the step and, main having no handler, main itself
Raise(e) ==
  /\ pc' = "failed"
  /\ err' = e

\* open(path, "x"): a file that exists is kept
RECURSIVE WriteAll_KeepExisting(_, _)
WriteAll_KeepExisting(disk, writes) ==
  IF writes = <<>> THEN disk
  ELSE WriteAll_KeepExisting(
         IF Head(writes).path \in DOMAIN disk THEN disk
         ELSE Put(disk, Head(writes).path, Head(writes).page),
         Tail(writes))

\* open(path, "w") and f.write, one after the other
RECURSIVE WriteAll(_, _)
WriteAll(disk, writes) ==
  IF writes = <<>> THEN disk
  ELSE WriteAll(Put(disk, Head(writes).path, Head(writes).page), Tail(writes))

Logged(step, writes) ==
  [i \in 1..Len(writes) |->
     [step |-> step, path |-> writes[i].path, page |-> writes[i].page]]

\* the step wrote these files
Wrote(step, writes) ==
  /\ fs' = WriteAll(fs, writes)
  /\ log' = log \o Logged(step, writes)

\* the step wrote all its files and returned
Returns(step, writes) ==
  /\ Wrote(step, writes)
  /\ pc' = After(step)
  /\ err' = err

\* the k-th write of the step failed: the earlier ones stay on disk
WriteFails(step, writes, k) ==
  /\ Wrote(step, SubSeq(writes, 1, k - 1))
  /\ Raise("OSError: cannot write")

NothingWritten == UNCHANGED <<fs, log>>

LoadPosts ==
  /\ pc = "load_posts"
  /\ LET loaded == load_posts(files) IN
       IF loaded.ok
       THEN /\ posts' = loaded.posts
            /\ pc' = After("load_posts")
            /\ err' = err
       ELSE /\ posts' = posts
            /\ Raise(loaded.error)
  /\ NothingWritten
  /\ UNCHANGED files
  /\ UNCHANGED parseVars

BuildBlogHtml ==
  /\ pc = "build_blog_html"
  /\ \/ NothingWritten /\ Raise("FileNotFoundError: blog-template.html")
     \/ WriteFails("build_blog_html", BlogWrites(posts), 1)
     \/ Returns("build_blog_html", BlogWrites(posts))
  /\ UNCHANGED <<files, posts>>
  /\ UNCHANGED parseVars

BuildPostPages ==
  /\ pc = "build_post_pages"
  /\ \/ NothingWritten /\ Raise("OSError: makedirs blog")
     \/ NothingWritten /\ Raise("FileNotFoundError: blog-post-template.html")
     \/ \E k \in 1..Len(posts) :
          WriteFails("build_post_pages", PostPageWrites(posts), k)
     \/ Returns("build_post_pages", PostPageWrites(posts))
  /\ UNCHANGED <<files, posts>>
  /\ UNCHANGED parseVars

BuildArchivePages ==
  /\ pc = "build_archive_pages"
  /\ \/ NothingWritten /\ Raise("OSError: makedirs blog/archive")
     \/ NothingWritten /\ Raise("FileNotFoundError: blog-archive-template.html")
     \/ \E k \in 1..Len(ArchiveWrites(posts)) :
          WriteFails("build_archive_pages", ArchiveWrites(posts), k)
     \/ Returns("build_archive_pages", ArchiveWrites(posts))
  /\ UNCHANGED <<files, posts>>
  /\ UNCHANGED parseVars

\* with no tag at all the builder returns before it opens its template
BuildTagPages ==
  /\ pc = "build_tag_pages"
  /\ \/ NothingWritten /\ Raise("OSError: makedirs blog/tag")
     \/ /\ TagMap(posts) # <<>>
        /\ NothingWritten
        /\ Raise("FileNotFoundError: blog-tag-template.html")
     \/ \E k \in 1..Len(TagWrites(posts)) :
          WriteFails("build_tag_pages", TagWrites(posts), k)
     \/ Returns("build_tag_pages", TagWrites(posts))
  /\ UNCHANGED <<files, posts>>
  /\ UNCHANGED parseVars

\* with no post at all the builder returns before it writes anything
BuildRss ==
  /\ pc = "build_rss"
  /\ \/ \E k \in 1..Len(RssWrites(posts)) :
          WriteFails("build_rss", RssWrites(posts), k)
     \/ Returns("build_rss", RssWrites(posts))
  /\ UNCHANGED <<files, posts>>
  /\ UNCHANGED parseVars

Next ==
  \/ LoadPosts
  \/ BuildBlogHtml
  \/ BuildPostPages
  \/ BuildArchivePages
  \/ BuildTagPages
  \/ BuildRss

(***************************************************************************)
(* The posts directories the checks draw from                              *)
(***************************************************************************)

\* greatest number of files in a directory of varied posts
MaxFiles == 3
\* greatest number of files in a directory of plain posts
MaxPosts == 6

VariedStems == <<<<"a">>, <<"a", "-", "b">>, <<"b">>, <<"c">>, <<"d">>>>

PlainStem(i) == <<"p">> \o IntToStr(i)

TitleOf(stem) == <<"T", "-">> \o stem

PlainLine(k, v) == Line(k, v, TRUE, FALSE, NoDate)

\* a well-formed post file; slug and tags are left out when empty
ValidText(stem, date, slug, tags) ==
  ShapeText([delims |-> 2,
             lines |-> <<PlainLine(kTitle, TitleOf(stem)), PlainLine(kDate, date)>>
                         \o (IF slug = <<>> THEN <<>> ELSE <<PlainLine(kSlug, slug)>>)
                         \o (IF tags = <<>> THEN <<>> ELSE <<PlainLine(kTags, tags)>>)])

\* the directories of the first 0..n stems, each file made from one choice
Dirs(stems, n, Choices, Make(_, _)) ==
  UNION { { [s \in {stems[i] : i \in 1..k} |-> Make(s, c[s])] :
              c \in [{stems[i] : i \in 1..k} -> Choices] } : k \in 0..n }

SortDates == {D_0105, D_0120, D_1231, D_0201 \o T_1030 \o Z_0200}
DatedText(stem, date) == ValidText(stem, date, <<>>, <<>>)

TagChoices == { <<>>,
                <<"C", "+", "+">>,
                <<"x", ",", " ", "x">>,
                <<"c", ",", "N", "e", "w", " ", "s", ",", "C", "+", "+">> }
TaggedText(stem, tags) == ValidText(stem, D_0120, <<>>, tags)

SlugChoices == {[slug |-> sl, date |-> d] :
                  sl \in {<<>>, <<"a">>}, d \in {D_0105, D_0120}}
SluggedText(stem, c) == ValidText(stem, c.date, c.slug, <<>>)

PlainChoices == {<<>>, <<"x">>}
PlainText(stem, slug) == ValidText(stem, D_0105, slug, <<>>)

BrokenChoices == {"valid", "no delimiters", "no title", "no date", "bad date", "no colon"}
BrokenText(stem, c) ==
  LET title == PlainLine(kTitle, TitleOf(stem))
      date == PlainLine(kDate, D_0105)
  IN CASE c = "valid" -> ShapeText([delims |-> 2, lines |-> <<title, date>>])
       [] c = "no delimiters" -> ShapeText([delims |-> 1, lines |-> <<title, date>>])
       [] c = "no title" -> ShapeText([delims |-> 2, lines |-> <<date>>])
       [] c = "no date" -> ShapeText([delims |-> 2, lines |-> <<title>>])
       [] c = "bad date" ->
            ShapeText([delims |-> 2, lines |-> <<title, PlainLine(kDate, D_Bad)>>])
       [] OTHER ->
            ShapeText([delims |-> 2,
                       lines |-> <<title, date,
                                   Line(<<"o", "o", "p", "s">>, <<>>, FALSE, FALSE, NoDate)>>])

PlainStems == [i \in 1..(MaxPosts + 1) |-> PlainStem(i)]

\* the initial value of files: one directory of one of the families
InPostDirs(dir) ==
  \/ dir \in Dirs(VariedStems, MaxFiles, SortDates, DatedText)
  \/ dir \in Dirs(VariedStems, MaxFiles, TagChoices, TaggedText)
  \/ dir \in Dirs(VariedStems, MaxFiles, SlugChoices, SluggedText)
  \/ dir \in Dirs(VariedStems, MaxFiles, BrokenChoices, BrokenText)
  \/ dir \in Dirs(PlainStems, MaxPosts, PlainChoices, PlainText)

ParseIdle ==
  /\ p_shape = [delims |-> 0, lines |-> <<>>]
  /\ p_path = <<>>
  /\ p_text = <<>>
  /\ p_pc = "idle"
  /\ p_result = [ok |-> FALSE, error |-> "none"]

Init ==
  /\ InPostDirs(files)
  /\ pc = "load_posts"
  /\ posts = <<>>
  /\ fs = <<>>
  /\ log = <<>>
  /\ err = "none"
  /\ ParseIdle

Spec == Init /\ [][Next]_vars

(***************************************************************************)
(* C3: parse_post                                                          *)
(***************************************************************************)

\* the last line of the block that gives key, as the author wrote it
RECURSIVE LastGiven(_, _)
LastGiven(lines, key) ==
  IF lines = <<>> THEN [some |-> FALSE]
  ELSE LET l == lines[Len(lines)] IN
       IF l.colon /\ l.k = key THEN [some |-> TRUE, v |-> l.v, iso |-> l.iso]
       ELSE LastGiven(SubSeq(lines, 1, Len(lines) - 1), key)

\* some line that is not blank has no ":"
HasLineWithoutColon(lines) ==
  \E i \in 1..Len(lines) : ~lines[i].colon /\ lines[i].k # <<" ">>

\* the call returned a post with this title and this date
ReturnedPost(title, date) ==
  /\ p_result.ok
  /\ p_result.post.title = title.v
  /\ p_result.post.date_str = date.v
  /\ date.iso.full => p_result.post.date = date.iso.value

\* C3 as stated: a text whose front matter gives title and an ISO-8601 date
\* parses to a post with those values, and parse_post raises when the text has
\* fewer than 3 segments, title or date is missing, the date is not ISO-8601,
\* or a non-blank metadata line has no ":".
C3_AsStated ==
  p_pc = "returned" =>
    LET title == LastGiven(p_shape.lines, kTitle)
        date == LastGiven(p_shape.lines, kDate)
        raises == \/ p_shape.delims < 2
                  \/ ~title.some
                  \/ ~date.some
                  \/ ~date.iso.ok
                  \/ HasLineWithoutColon(p_shape.lines)
    IN IF raises THEN ~p_result.ok ELSE ReturnedPost(title, date)

\* C3 as amended: the same, with a title whose value is empty counted as a
\* missing title and a date that names no day counted as no date:
\* parse_post returns the post exactly when the text has at least 3
\* segments, every non-blank metadata line has its ":", the title is given
\* and not empty and the date is given as YYYY-MM-DD with or without a time
\* and a UTC offset; in every other case it raises.
C3_ParsePost ==
  p_pc = "returned" =>
    LET title == LastGiven(p_shape.lines, kTitle)
        date == LastGiven(p_shape.lines, kDate)
        raises == \/ p_shape.delims < 2
                  \/ ~title.some
                  \/ title.some /\ title.v = <<>>
                  \/ ~date.some
                  \/ ~date.iso.ok
                  \/ ~date.iso.full
                  \/ HasLineWithoutColon(p_shape.lines)
    IN IF raises THEN ~p_result.ok ELSE ReturnedPost(title, date)

\* a text with a ":" inside its title and an offset in its date was parsed
C3_Witness ==
  /\ p_pc = "returned"
  /\ p_result.ok
  /\ p_result.post.title = <<"a", ":", "b">>
  /\ p_result.post.date.aware
  /\ p_shape.delims = 3

(***************************************************************************)
(* What the checks read off a run                                          *)
(***************************************************************************)

\* the writes a step made, in order
WritesOf(step) == SelectSeq(log, LAMBDA w : w.step = step)

\* the step ran to its end: main has moved past it without an error
Completed(step) == pc # "failed" /\ StepIndex(pc) > StepIndex(step)

\* the file of the posts directory a post was parsed from (the title names it)
StemOfPost(post) == SubSeq(post.title, 3, Len(post.title))

ParsesOk(stem) == parse_post(PostPath(stem), files[stem]).ok

\* the positions of the list that hold a post of this month
InMonth(key) == {i \in 1..Len(posts) : <<posts[i].date.year, posts[i].date.month>> = key}

\* the posts at the given positions, in list order
RECURSIVE Picked(_, _)
Picked(list, S) ==
  IF list = <<>> THEN <<>>
  ELSE Picked(SubSeq(list, 1, Len(list) - 1), S)
         \o (IF Len(list) \in S THEN <<list[Len(list)]>> ELSE <<>>)

(***************************************************************************)
(* C1: load_posts                                                          *)
(***************************************************************************)

\* the list holds one post per file, newest first, equal dates in the order
\* of their file names
LoadedInOrder ==
  /\ Len(posts) = Cardinality(DOMAIN files)
  /\ {StemOfPost(posts[i]) : i \in 1..Len(posts)} = DOMAIN files
  /\ \A i \in 1..(Len(posts) - 1) :
        Timestamp(posts[i].date) >= Timestamp(posts[i + 1].date)
  /\ \A i, j \in 1..Len(posts) :
        (i < j /\ Timestamp(posts[i].date) = Timestamp(posts[j].date))
          => StrLess(PostPath(StemOfPost(posts[i])), PostPath(StemOfPost(posts[j])))

\* load_posts has returned, or has raised
LoadReturned == pc = After("load_posts")
LoadRaised ==
  /\ pc = "failed"
  /\ err \in {"ValueError: missing front matter delimiters",
              "ValueError: not enough values to unpack",
              "ValueError: missing title or date",
              "ValueError: Invalid isoformat string",
              "TypeError: can't compare offset-naive and offset-aware datetimes"}

\* C1: for every set of valid post files load_posts returns all of them, by
\* date descending, posts of equal date in ascending file name order.
C1_LoadOrdersEveryValidSet ==
  ((LoadReturned \/ LoadRaised) /\ \A s \in DOMAIN files : ParsesOk(s))
    => (LoadReturned /\ LoadedInOrder)

\* what the code does keep: the order, whenever the dates of the files are all
\* naive or all aware (the sort can compare them)
C1_OrderWhenComparable ==
  (/\ LoadReturned \/ LoadRaised
   /\ \A s \in DOMAIN files : ParsesOk(s)
   /\ \A s, t \in DOMAIN files :
        Comparable(parse_post(PostPath(s), files[s]).post.date,
                   parse_post(PostPath(t), files[t]).post.date))
    => (LoadReturned /\ LoadedInOrder)

(***************************************************************************)
(* C2: errors are fatal                                                    *)
(***************************************************************************)

\* the last write to the path of the i-th write
LastWriteTo(i) ==
  CHOOSE j \in 1..Len(log) :
    /\ log[j].path = log[i].path
    /\ \A k \in (j + 1)..Len(log) : log[k].path # log[i].path

C2_State ==
  /\ (pc = "failed") <=> (err # "none")
  /\ pc \in {"load_posts", "build_blog_html"} => log = <<>>
  /\ DOMAIN fs = {log[i].path : i \in 1..Len(log)}
  /\ \A i \in 1..Len(log) :
        /\ pc # "failed" => StepIndex(log[i].step) < StepIndex(pc)
        /\ fs[log[i].path] = log[LastWriteTo(i)].page

C2_Step ==
  /\ pc # "failed"
  /\ pc' \in {After(pc), "failed"}
  /\ Len(log') >= Len(log)
  /\ SubSeq(log', 1, Len(log)) = log
  /\ \A i \in (Len(log) + 1)..Len(log') : log'[i].step = pc
  /\ pc' = "failed" => posts' = posts
  /\ (pc = "load_posts" /\ \E s \in DOMAIN files : ~ParsesOk(s))
       => (pc' = "failed" /\ posts' = <<>> /\ fs' = <<>> /\ log' = <<>>)

\* C2: an error is fatal where it occurs.  No step is taken by a run that has
\* failed, so no later step executes and nothing more is written; a step
\* that fails leaves only its own earlier writes behind; the error is what
\* main ends with; and when a post is malformed load_posts fails, which is
\* before any file is written.
C2_ErrorsAreFatal == []C2_State /\ [][C2_Step]_vars

\* a directory with a good and a bad post was loaded, and the run failed
C2_Witness ==
  /\ pc = "failed"
  /\ err = "ValueError: missing title or date"
  /\ \E s, t \in DOMAIN files : ParsesOk(s) /\ ~ParsesOk(t)
  /\ log = <<>>

(***************************************************************************)
(* C4: build_rss                                                           *)
(***************************************************************************)

\* C4: build_rss writes no feed for an empty list; for N >= 1 posts it writes
\* one feed with N items, one per post in list order, each with link = guid,
\* and with the lastBuildDate of the first post of the list.
C4_Rss ==
  Completed("build_rss") =>
    LET written == WritesOf("build_rss") IN
    IF posts = <<>>
    THEN written = <<>> /\ RSS_OUTPUT \notin DOMAIN fs
    ELSE /\ Len(written) = 1
         /\ written[1].path = RSS_OUTPUT
         /\ fs[RSS_OUTPUT] = written[1].page
         /\ LET feed == written[1].page IN
              /\ Len(feed.items) = Len(posts)
              /\ \A i \in 1..Len(posts) :
                    /\ feed.items[i].title = posts[i].title
                    /\ feed.items[i].link = SITE_BASE_URL \o BlogHref(posts[i].slug)
                    /\ feed.items[i].guid = feed.items[i].link
                    /\ feed.items[i].pubDate = RssDate(posts[i].date)
              /\ feed.lastBuildDate = RssDate(posts[1].date)
              /\ \A i \in 1..Len(posts) :
                    Timestamp(posts[1].date) >= Timestamp(posts[i].date)

\* a feed of posts of different dates was written
C4_Witness ==
  /\ Completed("build_rss")
  /\ Len(posts) >= 2
  /\ posts[1].date # posts[Len(posts)].date
  /\ RSS_OUTPUT \in DOMAIN fs

(***************************************************************************)
(* C5: build_tag_pages                                                     *)
(***************************************************************************)

\* the tag display strings of the posts
AllTags == UNION {{posts[i].tags[j] : j \in 1..Len(posts[i].tags)} : i \in 1..Len(posts)}

\* the posts that carry the tag
Carrying(tag) ==
  {i \in 1..Len(posts) : \E j \in 1..Len(posts[i].tags) : posts[i].tags[j] = tag}

\* one entry per time the tag stands in a tag list, in list order
RECURSIVE Occurrences(_, _)
Occurrences(list, tag) ==
  IF list = <<>> THEN <<>>
  ELSE LET post == list[Len(list)] IN
       Occurrences(SubSeq(list, 1, Len(list) - 1), tag)
         \o [n \in 1..Cardinality({j \in 1..Len(post.tags) : post.tags[j] = tag})
               |-> post]

\* where the tag first stands: the post, then the place in its tag list
FirstSeen(tag) ==
  LET i == CHOOSE x \in Carrying(tag) : \A y \in Carrying(tag) : x <= y
      j == CHOOSE x \in 1..Len(posts[i].tags) :
             /\ posts[i].tags[x] = tag
             /\ \A y \in 1..(x - 1) : posts[i].tags[y] # tag
  IN <<i, j>>

TagFiles == {f \in DOMAIN fs : StartsWith(f, TAG_OUTPUT_DIR \o <<"/">>)}

\* C5 as stated: one file per distinct tag display string, named by the tag's
\* slug, listing only the posts that carry the tag, its subtitle their number;
\* no file when no post has a tag.
C5_AsStated ==
  Completed("build_tag_pages") =>
    /\ Cardinality(TagFiles) = Cardinality(AllTags)
    /\ \A tag \in AllTags :
          /\ TagPagePath(tag) \in TagFiles
          /\ fs[TagPagePath(tag)].title = <<"Tag:", tag>>
          /\ fs[TagPagePath(tag)].subtitle = Cardinality(Carrying(tag))
          /\ fs[TagPagePath(tag)].posts_html = Cards(Picked(posts, Carrying(tag)))

\* C5 as amended: build_tag_pages writes one page per distinct tag display
\* string, in the order the tags are first seen, to {tag_slug}.html; a page
\* lists the posts that carry its tag, once for each time the tag stands in a
\* post's tag list, and its subtitle is the number of cards listed; so the
\* directory holds one file per distinct tag slug, tags of equal slug share a
\* file that keeps the page of the one seen last, and no file is written when
\* no post has a tag.
C5_TagPages ==
  Completed("build_tag_pages") =>
    LET written == WritesOf("build_tag_pages") IN
    /\ Len(written) = Cardinality(AllTags)
    /\ \A k \in 1..Len(written) :
          \E tag \in AllTags :
            /\ written[k].path = PathJoin(TAG_OUTPUT_DIR, slugify_tag(tag) \o DotHtml)
            /\ written[k].page.title = <<"Tag:", tag>>
            /\ written[k].page.posts_html = Cards(Occurrences(posts, tag))
            /\ written[k].page.subtitle = Len(written[k].page.posts_html)
            /\ \A card \in {written[k].page.posts_html[n] :
                              n \in 1..Len(written[k].page.posts_html)} :
                  \E i \in Carrying(tag) : card = render_post_card(posts[i])
            /\ \A m \in 1..(k - 1) :
                  \E other \in AllTags \ {tag} :
                    /\ written[m].page.title = <<"Tag:", other>>
                    /\ FirstSeen(other)[1] < FirstSeen(tag)[1]
                         \/ (/\ FirstSeen(other)[1] = FirstSeen(tag)[1]
                             /\ FirstSeen(other)[2] < FirstSeen(tag)[2])
    /\ TagFiles = {PathJoin(TAG_OUTPUT_DIR, slugify_tag(tag) \o DotHtml) : tag \in AllTags}
    /\ Cardinality(TagFiles) = Cardinality({slugify_tag(tag) : tag \in AllTags})
    /\ \A f \in TagFiles :
          \E k \in 1..Len(written) :
            /\ written[k].path = f
            /\ fs[f] = written[k].page
            /\ \A m \in (k + 1)..Len(written) : written[m].path # f
    /\ AllTags = {} => TagFiles = {}

\* two tags of one slug, and a tag given twice by one post, had their pages
\* written
C5_Witness ==
  /\ Completed("build_tag_pages")
  /\ \E t, u \in AllTags : t # u /\ slugify_tag(t) = slugify_tag(u)
  /\ \E i \in 1..Len(posts) : \E j, k \in 1..Len(posts[i].tags) :
        j # k /\ posts[i].tags[j] = posts[i].tags[k]
  /\ \E t \in AllTags : slugify_tag(t) = <<"n", "e", "w", "-", "s">>

(***************************************************************************)
(* C6, C9: build_prev_next_nav                                             *)
(***************************************************************************)

\* the links of a navigation fragment with this label
LinksOf(nav, rel) == SelectSeq(nav, LAMBDA a : a.rel = rel)

\* the fragment links to this post under this label
LinksTo(nav, rel, post) ==
  /\ Len(LinksOf(nav, rel)) = 1
  /\ LinksOf(nav, rel)[1].href = <<"/", "b", "l", "o", "g", "/">> \o post.slug \o DotHtml
  /\ LinksOf(nav, rel)[1].title = post.title

\* the navigation fragment on the page written for posts[index]
NavAt(index) == WritesOf("build_post_pages")[index + 1].page.nav

\* C6: for every index of the newest-first list, the page has a Previous Post
\* link iff a post stands at index+1, and it targets that post; a Next Post
\* link iff index > 0, and it targets the post at index-1; both are joined by
\* the separator, Previous first; neither gives the empty string.
C6_PrevNext ==
  \A index \in 0..(Len(WritesOf("build_post_pages")) - 1) :
    LET nav == NavAt(index)
        hasOlder == index + 1 <= Len(posts) - 1
        hasNewer == index > 0
    IN /\ (LinksOf(nav, "Previous Post") # <<>>) <=> hasOlder
       /\ (LinksOf(nav, "Next Post") # <<>>) <=> hasNewer
       /\ hasOlder => LinksTo(nav, "Previous Post", posts[index + 2])
       /\ hasNewer => LinksTo(nav, "Next Post", posts[index])
       /\ (hasOlder /\ hasNewer) =>
            /\ Len(nav) = 3
            /\ nav[1].rel = "Previous Post"
            /\ nav[2] = NavSeparator
            /\ nav[3].rel = "Next Post"
       /\ (hasOlder # hasNewer) => Len(nav) = 1
       /\ (~hasOlder /\ ~hasNewer) => nav = <<>>

\* the pages of a list of three posts were written
C6_Witness ==
  /\ Completed("build_post_pages")
  /\ Len(posts) = 3
  /\ Len(NavAt(1)) = 3
  /\ posts[1].slug # posts[3].slug

\* C9 as stated: in a list of three posts P0, P1, P2 (newest first), index 1
\* gives Previous = P2 and Next = P0; index 0 gives only a Next link, to P1;
\* index 2 gives no Previous link and a Next link to P1.
C9_AsStated ==
  (Len(posts) = 3 /\ Len(WritesOf("build_post_pages")) = 3) =>
    /\ LinksTo(NavAt(1), "Previous Post", posts[3])
    /\ LinksTo(NavAt(1), "Next Post", posts[1])
    /\ LinksOf(NavAt(0), "Previous Post") = <<>>
    /\ LinksTo(NavAt(0), "Next Post", posts[2])
    /\ LinksOf(NavAt(2), "Previous Post") = <<>>
    /\ LinksTo(NavAt(2), "Next Post", posts[2])

\* C9 as amended: index 1 gives Previous = P2 and Next = P0; index 0 gives
\* only a Previous link, to P1 (the newest post has no newer one); index 2
\* gives no Previous link and a Next link to P1.
C9_ThreePosts ==
  (Len(posts) = 3 /\ Len(WritesOf("build_post_pages")) = 3) =>
    /\ LinksTo(NavAt(1), "Previous Post", posts[3])
    /\ LinksTo(NavAt(1), "Next Post", posts[1])
    /\ Len(NavAt(1)) = 3
    /\ LinksTo(NavAt(0), "Previous Post", posts[2])
    /\ LinksOf(NavAt(0), "Next Post") = <<>>
    /\ Len(NavAt(0)) = 1
    /\ LinksOf(NavAt(2), "Previous Post") = <<>>
    /\ LinksTo(NavAt(2), "Next Post", posts[2])
    /\ Len(NavAt(2)) = 1

\* the pages of three posts of three dates and three slugs were written
C9_Witness ==
  /\ Completed("build_post_pages")
  /\ Len(posts) = 3
  /\ Cardinality({posts[i].slug : i \in 1..3}) = 3
  /\ Cardinality({posts[i].date : i \in 1..3}) = 3
  /\ Len(WritesOf("build_post_pages")) = 3

(***************************************************************************)
(* C7: the sidebar of a post page                                          *)
(***************************************************************************)

\* the sidebar on the page written for the k-th post of the list
SidebarAt(k) == WritesOf("build_post_pages")[k].page.recent

Marked(k) == {j \in 1..Len(SidebarAt(k)) : SidebarAt(k)[j].current}

\* C7 as stated: on every post page, whatever the post's place in the list,
\* the sidebar has an entry marked current, and the marked entry is the one
\* of that post.
C7_AsStated ==
  \A k \in 1..Len(WritesOf("build_post_pages")) : Marked(k) = {k}

\* C7 as amended: the sidebar lists the first 5 posts of the list, and on the
\* page of a post the marked entries are those of the listed posts whose slug
\* is that post's slug: the post's own entry when it is among the first 5
\* (with the entry of any listed post that shares its slug), and none for a
\* later post whose slug no listed post shares.
C7_Sidebar ==
  \A k \in 1..Len(WritesOf("build_post_pages")) :
    /\ Len(SidebarAt(k)) = IF Len(posts) < 5 THEN Len(posts) ELSE 5
    /\ \A j \in 1..Len(SidebarAt(k)) :
          SidebarAt(k)[j].href = <<"/", "b", "l", "o", "g", "/">> \o posts[j].slug \o DotHtml
    /\ Marked(k) = {j \in 1..Len(SidebarAt(k)) : posts[j].slug = posts[k].slug}
    /\ k <= 5 => k \in Marked(k)
    /\ (k > 5 /\ \A j \in 1..5 : posts[j].slug # posts[k].slug) => Marked(k) = {}

\* the page of a sixth post was written with no entry marked, and the page of
\* a post whose slug another listed post shares
C7_Witness ==
  /\ Len(WritesOf("build_post_pages")) >= 6
  /\ Marked(6) = {}
  /\ Cardinality(Marked(1)) = 2

(***************************************************************************)
(* C8: month groups                                                        *)
(***************************************************************************)

MonthKeys == {<<posts[i].date.year, posts[i].date.month>> : i \in 1..Len(posts)}

\* the key an entry of the archive sidebar is labelled with
KeyOfEntry(e) == CHOOSE key \in MonthKeys : e.title = <<MonthName[key[2]], key[1]>>

RECURSIVE SumOf(_)
SumOf(sizes) == IF sizes = <<>> THEN 0 ELSE Head(sizes) + SumOf(Tail(sizes))

ArchiveFileName(key) ==
  <<"a", "r", "c", "h", "i", "v", "e", "-">> \o IntToStr(key[1]) \o <<"-">>
    \o (IF key[2] < 10 THEN <<"0">> ELSE <<>>) \o IntToStr(key[2]) \o DotHtml

\* C8: the month groups partition the list (each post in the group of its own
\* date, sizes summing to the number of posts); the archive sidebar has one
\* entry per group, in strictly descending (year, month) order, labelled
\* with the group's size; build_archive_pages writes one page per group, named
\* archive-{year}-{month:02d}.html, with that group's posts in list order and
\* the group's size as its subtitle.
C8_Archives ==
  Completed("build_archive_pages") =>
    LET written == WritesOf("build_archive_pages")
        sidebar == fs[BLOG_OUTPUT].archives
    IN /\ Len(written) = Cardinality(MonthKeys)
       /\ SumOf([k \in 1..Len(written) |-> written[k].page.subtitle]) = Len(posts)
       /\ \A key \in MonthKeys :
             \E k \in 1..Len(written) :
               /\ written[k].path = PathJoin(ARCHIVE_OUTPUT_DIR, ArchiveFileName(key))
               /\ fs[written[k].path] = written[k].page
               /\ written[k].page.posts_html = Cards(Picked(posts, InMonth(key)))
               /\ written[k].page.subtitle = Cardinality(InMonth(key))
               /\ \A m \in 1..Len(written) : written[m].path = written[k].path => m = k
       /\ Len(sidebar) = Cardinality(MonthKeys)
       /\ \A i \in 1..Len(sidebar) :
             /\ \E key \in MonthKeys : sidebar[i].title = <<MonthName[key[2]], key[1]>>
             /\ sidebar[i].sub = Cardinality(InMonth(KeyOfEntry(sidebar[i])))
             /\ sidebar[i].sub >= 1
       /\ \A i \in 1..(Len(sidebar) - 1) :
             KeyLess(KeyOfEntry(sidebar[i + 1]), KeyOfEntry(sidebar[i]))
       /\ \A k \in 1..Len(written) : written[k].page.archives = sidebar

\* the archive of three posts of two months of two years, two in one month
C8_Witness ==
  /\ Completed("build_archive_pages")
  /\ Cardinality(MonthKeys) = 2
  /\ \E key \in MonthKeys : Cardinality(InMonth(key)) = 2
  /\ \E a, b \in MonthKeys : a[1] # b[1]

(***************************************************************************)
(* C10: posts of one slug                                                  *)
(***************************************************************************)

PostFiles ==
  {f \in DOMAIN fs : \E i \in 1..Len(posts) :
     f = POSTS_OUTPUT_DIR \o <<"/">> \o posts[i].slug \o DotHtml}

\* the last post of the list with the slug of the i-th
LastWithSlug(i) ==
  CHOOSE j \in 1..Len(posts) :
    /\ posts[j].slug = posts[i].slug
    /\ \A k \in (j + 1)..Len(posts) : posts[k].slug # posts[i].slug

\* C10: posts that share a slug raise no error; their pages are written to one
\* path in list order, so the file holds the page of the last of them in the
\* list, and there are as many post-page files as distinct slugs.
C10_SlugCollision ==
  Completed("build_post_pages") =>
    LET written == WritesOf("build_post_pages") IN
    /\ Len(written) = Len(posts)
    /\ \A i \in 1..Len(posts) :
          /\ written[i].path = POSTS_OUTPUT_DIR \o <<"/">> \o posts[i].slug \o DotHtml
          /\ written[i].page.title = posts[i].title
          /\ fs[written[i].path] = written[LastWithSlug(i)].page
          /\ fs[written[i].path].title = posts[LastWithSlug(i)].title
    /\ Cardinality(PostFiles) = Cardinality({posts[i].slug : i \in 1..Len(posts)})

\* three posts, two of them of one slug and of different dates
C10_Witness ==
  /\ Completed("build_post_pages")
  /\ Len(posts) = 3
  /\ posts[1].slug = posts[3].slug
  /\ posts[1].slug # posts[2].slug
  /\ posts[1].date # posts[3].date
  /\ fs[POSTS_OUTPUT_DIR \o <<"/">> \o posts[1].slug \o DotHtml].title = posts[3].title

====
